---------------------------- MODULE Spec2Model ----------------------------
(***************************************************************************)
(* AutoData AI: the client-side data management pipeline of the vehicle    *)
(* catalogue (src/utils.ts, src/App.tsx, src/internalData.ts,               *)
(* src/geminiService.ts).                                                   *)
(*                                                                         *)
(* Text is modelled as a sequence of one-character strings, so that        *)
(* lower-casing, trimming, splitting, joining, number formatting and       *)
(* number parsing are computed the way the JavaScript code computes them.  *)
(***************************************************************************)
EXTENDS Integers, Sequences, FiniteSets, TLC

(***************************************************************************)
(* JavaScript string primitives used by the code.                          *)
(***************************************************************************)
UpperChars ==
  << "A", "B", "C", "D", "E", "F", "G", "H", "I", "J", "K", "L", "M",
     "N", "O", "P", "Q", "R", "S", "T", "U", "V", "W", "X", "Y", "Z" >>

LowerChars ==
  << "a", "b", "c", "d", "e", "f", "g", "h", "i", "j", "k", "l", "m",
     "n", "o", "p", "q", "r", "s", "t", "u", "v", "w", "x", "y", "z" >>

DigitChars == << "0", "1", "2", "3", "4", "5", "6", "7", "8", "9" >>

\* Position of c in seq, 0 when absent.
IndexOf(seq, c) ==
  IF \E i \in 1..Len(seq) : seq[i] = c
    THEN CHOOSE i \in 1..Len(seq) : seq[i] = c /\ \A j \in 1..(i-1) : seq[j] # c
    ELSE 0

\* The value a field has when a data row has no value at the header's column
\* (JavaScript undefined).
UNDEFINED == << "undefined" >>

\* The lower-case letter of every upper-case letter.
LowerOf ==
  [c \in {UpperChars[i] : i \in 1..Len(UpperChars)} |-> LowerChars[IndexOf(UpperChars, c)]]

\* String.prototype.toLowerCase
toLowerCase(s) ==
  [i \in 1..Len(s) |-> IF s[i] \in DOMAIN LowerOf THEN LowerOf[s[i]] ELSE s[i]]

IsWhiteSpace(c) == c \in {" ", "\n", "\t", "\r"}

\* String.prototype.trim
trim(s) ==
  LET keep == {i \in 1..Len(s) : ~IsWhiteSpace(s[i])}
  IN  IF keep = {} THEN << >>
      ELSE LET lo == CHOOSE i \in keep : \A j \in keep : i <= j
               hi == CHOOSE i \in keep : \A j \in keep : j <= i
           IN  SubSeq(s, lo, hi)

\* String.prototype.split with a one-character separator
RECURSIVE split(_, _)
split(s, sep) ==
  LET i == IndexOf(s, sep)
  IN  IF i = 0 THEN << s >>
      ELSE << SubSeq(s, 1, i - 1) >> \o split(SubSeq(s, i + 1, Len(s)), sep)

\* Array.prototype.join with a separator string
RECURSIVE join(_, _)
join(parts, sep) ==
  IF Len(parts) = 0 THEN << >>
  ELSE IF Len(parts) = 1 THEN parts[1]
  ELSE LET half == Len(parts) \div 2
       IN  join(SubSeq(parts, 1, half), sep) \o sep
             \o join(SubSeq(parts, half + 1, Len(parts)), sep)

\* String.prototype.includes
includes(s, t) ==
  \E i \in 1..(Len(s) - Len(t) + 1) : SubSeq(s, i, i + Len(t) - 1) = t

IsDigit(c) == IndexOf(DigitChars, c) # 0

DigitValue(c) == IndexOf(DigitChars, c) - 1

\* String(n) for an integer n
RECURSIVE NatToString(_)
NatToString(n) ==
  IF n < 10 THEN << DigitChars[n + 1] >>
  ELSE NatToString(n \div 10) \o << DigitChars[(n % 10) + 1] >>

NumberToString(n) == IF n < 0 THEN << "-" >> \o NatToString(0 - n) ELSE NatToString(n)

\* Value of a sequence of decimal digits
RECURSIVE DigitsToNat(_)
DigitsToNat(ds) ==
  IF Len(ds) = 0 THEN 0
  ELSE 10 * DigitsToNat(SubSeq(ds, 1, Len(ds) - 1)) + DigitValue(ds[Len(ds)])

\* Length of the run of decimal digits that starts at position i of s
RECURSIVE DigitRunLen(_, _)
DigitRunLen(s, i) ==
  IF i > Len(s) \/ ~IsDigit(s[i]) THEN 0 ELSE 1 + DigitRunLen(s, i + 1)

\* parseInt with NaN replaced by 0.
parseInt_NaNAsZero(val) ==
  IF val = UNDEFINED THEN [isNaN |-> FALSE, value |-> 0]
  ELSE
  LET t    == trim(val)
      neg  == Len(t) > 0 /\ t[1] = "-"
      sgn  == Len(t) > 0 /\ t[1] \in {"-", "+"}
      from == IF sgn THEN 2 ELSE 1
      n    == DigitRunLen(t, from)
      mag  == DigitsToNat(SubSeq(t, from, from + n - 1))
  IN  IF n = 0 THEN [isNaN |-> FALSE, value |-> 0]
      ELSE [isNaN |-> FALSE, value |-> IF neg THEN 0 - mag ELSE mag]

\* parseInt(val, 10): leading white space is skipped, then an optional sign,
\* then the longest run of digits; NaN when there is no digit there.  An
\* undefined argument is converted to the text "undefined", which is NaN.
parseInt(val) ==
  IF val = UNDEFINED THEN [isNaN |-> TRUE, value |-> 0]
  ELSE
  LET t    == trim(val)
      neg  == Len(t) > 0 /\ t[1] = "-"
      sgn  == Len(t) > 0 /\ t[1] \in {"-", "+"}
      from == IF sgn THEN 2 ELSE 1
      n    == DigitRunLen(t, from)
      mag  == DigitsToNat(SubSeq(t, from, from + n - 1))
  IN  IF n = 0 THEN [isNaN |-> TRUE, value |-> 0]
      ELSE [isNaN |-> FALSE, value |-> IF neg THEN 0 - mag ELSE mag]

(***************************************************************************)
(* String.prototype.localeCompare (default collation).  A primary          *)
(* comparison of the characters' collation weights, letters compared       *)
(* without regard to case; strings equal at that level are ordered by      *)
(* case, lower case first.                                                 *)
(***************************************************************************)
CollationOrder ==
  << "\t", "\n", "\r", " ", "_", "-", ",", "#" >> \o DigitChars \o LowerChars

PrimaryWeight(c) == IndexOf(CollationOrder, IF IndexOf(UpperChars, c) # 0
                                             THEN LowerChars[IndexOf(UpperChars, c)]
                                             ELSE c)

IsUpper(c) == IndexOf(UpperChars, c) # 0

localeCompare(a, b) ==
  LET n    == IF Len(a) < Len(b) THEN Len(a) ELSE Len(b)
      pd   == {i \in 1..n : PrimaryWeight(a[i]) # PrimaryWeight(b[i])}
      td   == {i \in 1..n : IsUpper(a[i]) # IsUpper(b[i])}
      frst(S) == CHOOSE i \in S : \A j \in S : i <= j
  IN  IF pd # {}
        THEN (IF PrimaryWeight(a[frst(pd)]) < PrimaryWeight(b[frst(pd)]) THEN -1 ELSE 1)
      ELSE IF Len(a) # Len(b) THEN (IF Len(a) < Len(b) THEN -1 ELSE 1)
      ELSE IF td # {} THEN (IF IsUpper(b[frst(td)]) THEN -1 ELSE 1)
      ELSE 0

(***************************************************************************)
(* src/internalData.ts: the built-in seed records.                         *)
(***************************************************************************)
INTERNAL_DB_MAIN ==
  << [Manufacturer |-> <<"T", "o", "y", "o", "t", "a">>,
      Model |-> <<"C", "o", "r", "o", "l", "l", "a">>,
      Generation |-> <<"1", "2">>, Model_Code |-> <<"E", "2", "1", "0">>,
      Start_Year |-> 2018, End_Year |-> <<"P", "r", "e", "s", "e", "n", "t">>],
     [Manufacturer |-> <<"T", "o", "y", "o", "t", "a">>,
      Model |-> <<"R", "A", "V", "4">>,
      Generation |-> <<"5">>, Model_Code |-> <<"X", "A", "5", "0">>,
      Start_Year |-> 2018, End_Year |-> <<"P", "r", "e", "s", "e", "n", "t">>],
     [Manufacturer |-> <<"H", "y", "u", "n", "d", "a", "i">>,
      Model |-> <<"T", "u", "c", "s", "o", "n">>,
      Generation |-> <<"4">>, Model_Code |-> <<"N", "X", "4">>,
      Start_Year |-> 2020, End_Year |-> <<"P", "r", "e", "s", "e", "n", "t">>],
     [Manufacturer |-> <<"H", "y", "u", "n", "d", "a", "i">>,
      Model |-> <<"I", "o", "n", "i", "q", " ", "5">>,
      Generation |-> <<"1">>, Model_Code |-> <<"N", "E">>,
      Start_Year |-> 2021, End_Year |-> <<"P", "r", "e", "s", "e", "n", "t">>],
     [Manufacturer |-> <<"S", "k", "o", "d", "a">>,
      Model |-> <<"O", "c", "t", "a", "v", "i", "a">>,
      Generation |-> <<"4">>, Model_Code |-> <<"N", "X">>,
      Start_Year |-> 2020, End_Year |-> <<"P", "r", "e", "s", "e", "n", "t">>],
     [Manufacturer |-> <<"S", "u", "z", "u", "k", "i">>,
      Model |-> <<"S", "w", "i", "f", "t">>,
      Generation |-> <<"6">>, Model_Code |-> <<"A", "2", "L">>,
      Start_Year |-> 2017, End_Year |-> <<"2", "0", "2", "3">>] >>

INTERNAL_DB_PREMIUM ==
  << [Manufacturer |-> <<"B", "M", "W">>,
      Model |-> <<"3", " ", "S", "e", "r", "i", "e", "s">>,
      Generation |-> <<"7">>, Model_Code |-> <<"G", "2", "0">>,
      Start_Year |-> 2018, End_Year |-> <<"P", "r", "e", "s", "e", "n", "t">>],
     [Manufacturer |-> <<"B", "M", "W">>,
      Model |-> <<"5", " ", "S", "e", "r", "i", "e", "s">>,
      Generation |-> <<"8">>, Model_Code |-> <<"G", "6", "0">>,
      Start_Year |-> 2023, End_Year |-> <<"P", "r", "e", "s", "e", "n", "t">>],
     [Manufacturer |-> <<"M", "e", "r", "c", "e", "d", "e", "s", "-", "B", "e", "n", "z">>,
      Model |-> <<"C", "-", "C", "l", "a", "s", "s">>,
      Generation |-> <<"5">>, Model_Code |-> <<"W", "2", "0", "6">>,
      Start_Year |-> 2021, End_Year |-> <<"P", "r", "e", "s", "e", "n", "t">>],
     [Manufacturer |-> <<"M", "e", "r", "c", "e", "d", "e", "s", "-", "B", "e", "n", "z">>,
      Model |-> <<"S", "-", "C", "l", "a", "s", "s">>,
      Generation |-> <<"7">>, Model_Code |-> <<"W", "2", "2", "3">>,
      Start_Year |-> 2020, End_Year |-> <<"P", "r", "e", "s", "e", "n", "t">>] >>

(***************************************************************************)
(* src/utils.ts                                                            *)
(***************************************************************************)
ManufacturerName == <<"M", "a", "n", "u", "f", "a", "c", "t", "u", "r", "e", "r">>
ModelName == <<"M", "o", "d", "e", "l">>
GenerationName == <<"G", "e", "n", "e", "r", "a", "t", "i", "o", "n">>
ModelCodeName == <<"M", "o", "d", "e", "l", "_", "C", "o", "d", "e">>
StartYearName == <<"S", "t", "a", "r", "t", "_", "Y", "e", "a", "r">>
EndYearName == <<"E", "n", "d", "_", "Y", "e", "a", "r">>

\* The header list of convertToCSV and parseCSV.
expectedHeaders ==
  << ManufacturerName, ModelName, GenerationName, ModelCodeName,
     StartYearName, EndYearName >>

Range(s) == {s[i] : i \in 1..Len(s)}

\* The comparator of sortDatabase: its sign orders a before b (negative),
\* after b (positive) or leaves them as they are (0).
compareRecords(a, b) ==
  LET mCompare     == localeCompare(a.Manufacturer, b.Manufacturer)
      modelCompare == localeCompare(a.Model, b.Model)
  IN  IF mCompare # 0 THEN mCompare
      ELSE IF modelCompare # 0 THEN modelCompare
      ELSE a.Start_Year - b.Start_Year

\* One step of a sort that is not stable: r goes in front of the records it
\* ties with.
insertSorted_BeforeTies(sorted, r) ==
  LET ge == {i \in 1..Len(sorted) : compareRecords(sorted[i], r) >= 0}
      at == IF ge = {} THEN Len(sorted) + 1
            ELSE CHOOSE i \in ge : \A j \in ge : i <= j
  IN  SubSeq(sorted, 1, at - 1) \o << r >> \o SubSeq(sorted, at, Len(sorted))

\* One step of the stable sort: r goes behind every record that does not
\* compare greater than it.
insertSorted(sorted, r) ==
  LET gt == {i \in 1..Len(sorted) : compareRecords(sorted[i], r) > 0}
      at == IF gt = {} THEN Len(sorted) + 1
            ELSE CHOOSE i \in gt : \A j \in gt : i <= j
  IN  SubSeq(sorted, 1, at - 1) \o << r >> \o SubSeq(sorted, at, Len(sorted))

\* [...data].sort(comparator): Array.prototype.sort is stable.
RECURSIVE sortDatabase(_)
sortDatabase(data) ==
  IF Len(data) = 0 THEN << >>
  ELSE insertSorted(sortDatabase(SubSeq(data, 1, Len(data) - 1)), data[Len(data)])

\* A call of sortDatabase: what it returns and what the array passed to it
\* holds afterwards.  sort reorders the copy that the spread makes.
sortDatabaseCall(data) == [returned |-> sortDatabase(data), argument |-> data]

\* record[header] as Array.prototype.join renders it: a number in decimal,
\* an undefined value as the empty text.
fieldText(record, header) ==
  IF header = ManufacturerName THEN (IF record.Manufacturer = UNDEFINED THEN << >> ELSE record.Manufacturer)
  ELSE IF header = ModelName THEN (IF record.Model = UNDEFINED THEN << >> ELSE record.Model)
  ELSE IF header = GenerationName THEN (IF record.Generation = UNDEFINED THEN << >> ELSE record.Generation)
  ELSE IF header = ModelCodeName THEN (IF record.Model_Code = UNDEFINED THEN << >> ELSE record.Model_Code)
  ELSE IF header = StartYearName THEN NumberToString(record.Start_Year)
  ELSE (IF record.End_Year = UNDEFINED THEN << >> ELSE record.End_Year)

\* convertToCSV without the header row.
convertToCSV_NoHeader(data) ==
  LET headers == expectedHeaders
      rows    == [i \in 1..Len(data) |->
                    join([h \in 1..Len(headers) |-> fieldText(data[i], headers[h])], << "," >>)]
  IN  join(rows, << "\n" >>)

convertToCSV(data) ==
  LET headers == expectedHeaders
      rows    == [i \in 1..Len(data) |->
                    join([h \in 1..Len(headers) |-> fieldText(data[i], headers[h])], << "," >>)]
  IN  join(<< join(headers, << "," >>) >> \o rows, << "\n" >>)

\* cleanGeneration keeping every digit of val, as its comment has it
\* ("Extracts only digits").
cleanGeneration_AllDigits(val) ==
  IF \A i \in 1..Len(val) : ~IsDigit(val[i]) THEN val ELSE SelectSeq(val, IsDigit)

\* val.match(/\d+/): the leftmost longest run of digits, else val itself.
cleanGeneration(val) ==
  LET ds == {i \in 1..Len(val) : IsDigit(val[i])}
  IN  IF ds = {} THEN val
      ELSE LET i == CHOOSE k \in ds : \A j \in ds : k <= j
           IN  SubSeq(val, i, i + DigitRunLen(val, i) - 1)

\* values.length < expectedHeaders.length taken as never true.
isShortRow_Never(values) == FALSE

\* "if (values.length < expectedHeaders.length) continue": the row is skipped.
isShortRow(values) == Len(values) < Len(expectedHeaders)

\* The column a field is read from, taken as the field's place in
\* expectedHeaders whatever the header row says.
columnOf_Positional(headers, name) ==
  CHOOSE k \in 1..Len(expectedHeaders) : expectedHeaders[k] = name

\* headers.forEach((header, index) => record[header] = values[index]): a
\* field is read from the column the header row gives its name; forEach
\* assigns in column order, so the last column of a name wins.
columnOf(headers, name) ==
  CHOOSE k \in 1..Len(headers) :
    headers[k] = name /\ \A j \in 1..Len(headers) : headers[j] = name => j <= k

NoError == [kind |-> "none", line |-> 0, text |-> << >>]

\* "return []" for a text without a data line, as an error instead.
emptyResult_Error ==
  [ok |-> FALSE, records |-> << >>, error |-> [kind |-> "header", line |-> 0, text |-> << >>]]

\* "return []": the result of parseCSV for a text of fewer than two
\* non-blank lines.
emptyResult == [ok |-> TRUE, records |-> << >>, error |-> NoError]

\* parseCSV.  The result is either the decoded records (ok) or the thrown
\* error: kind "header" (the header check), "year" (Start_Year is NaN, with
\* the line number i + 1 and the offending text) or "type" (the TypeError of
\* cleanGeneration(undefined)).  A record keeps the six VehicleRecord
\* fields; a value under any other header name is never read again.
parseCSV(content) ==
  LET NonBlank(line) == trim(line) # << >>
      lines     == SelectSeq(split(content, "\n"), NonBlank)
      cellsOf(line) == LET cells == split(line, ",")
                       IN  [k \in 1..Len(cells) |-> trim(cells[k])]
      headers   == cellsOf(lines[1])
      isValidHeader == \A h \in Range(expectedHeaders) : h \in Range(headers)
      \* values of line i: lines[i].split(',').map(v => v.trim())
      values    == [i \in 1..Len(lines) |-> cellsOf(lines[i])]
      valueAt(i, k) == IF k <= Len(values[i]) THEN values[i][k] ELSE UNDEFINED
      accepted(i) == ~isShortRow(values[i])
      throwsAt(i, k) ==
        \/ headers[k] = StartYearName /\ parseInt(valueAt(i, k)).isNaN
        \/ headers[k] = GenerationName /\ valueAt(i, k) = UNDEFINED
      throwing(i) == {k \in 1..Len(headers) : throwsAt(i, k)}
      badRows   == {i \in 2..Len(lines) : accepted(i) /\ throwing(i) # {}}
      firstBad  == CHOOSE i \in badRows : \A j \in badRows : i <= j
      firstCol  == CHOOSE k \in throwing(firstBad) : \A j \in throwing(firstBad) : k <= j
      column(name) == columnOf(headers, name)
      record(i) ==
        [Manufacturer |-> valueAt(i, column(ManufacturerName)),
         Model        |-> valueAt(i, column(ModelName)),
         Generation   |-> cleanGeneration(valueAt(i, column(GenerationName))),
         Model_Code   |-> valueAt(i, column(ModelCodeName)),
         Start_Year   |-> parseInt(valueAt(i, column(StartYearName))).value,
         End_Year     |-> valueAt(i, column(EndYearName))]
      rowIdx    == SelectSeq([i \in 1..Len(lines) |-> i], LAMBDA i : i >= 2 /\ accepted(i))
  IN  IF Len(lines) < 2 THEN emptyResult
      ELSE IF ~isValidHeader
        THEN [ok |-> FALSE, records |-> << >>,
              error |-> [kind |-> "header", line |-> 0, text |-> << >>]]
      ELSE IF badRows # {}
        THEN [ok |-> FALSE, records |-> << >>,
              error |-> IF headers[firstCol] = StartYearName
                          THEN [kind |-> "year", line |-> firstBad,
                                text |-> valueAt(firstBad, firstCol)]
                          ELSE [kind |-> "type", line |-> 0, text |-> << >>]]
      ELSE [ok |-> TRUE, records |-> [n \in 1..Len(rowIdx) |-> record(rowIdx[n])],
            error |-> NoError]

\* isDuplicate comparing End_Year as well.
isDuplicate_WithEndYear(existing, record) ==
  \E n \in 1..Len(existing) :
    LET item == existing[n]
    IN  /\ toLowerCase(item.Manufacturer) = toLowerCase(record.Manufacturer)
        /\ toLowerCase(item.Model) = toLowerCase(record.Model)
        /\ toLowerCase(item.Generation) = toLowerCase(record.Generation)
        /\ toLowerCase(item.Model_Code) = toLowerCase(record.Model_Code)
        /\ item.Start_Year = record.Start_Year
        /\ toLowerCase(item.End_Year) = toLowerCase(record.End_Year)

isDuplicate(existing, record) ==
  \E n \in 1..Len(existing) :
    LET item == existing[n]
    IN  /\ toLowerCase(item.Manufacturer) = toLowerCase(record.Manufacturer)
        /\ toLowerCase(item.Model) = toLowerCase(record.Model)
        /\ toLowerCase(item.Generation) = toLowerCase(record.Generation)
        /\ toLowerCase(item.Model_Code) = toLowerCase(record.Model_Code)
        /\ item.Start_Year = record.Start_Year

(***************************************************************************)
(* JSON.stringify and JSON.parse, for the values the application stores:   *)
(* an array of flat objects whose members are strings and integers.        *)
(***************************************************************************)
escapeChar(c) ==
  IF c = "\"" THEN << "\\", "\"" >>
  ELSE IF c = "\\" THEN << "\\", "\\" >>
  ELSE IF c = "\n" THEN << "\\", "n" >>
  ELSE IF c = "\t" THEN << "\\", "t" >>
  ELSE IF c = "\r" THEN << "\\", "r" >>
  ELSE << c >>

unescapeChar(c) ==
  IF c = "n" THEN "\n" ELSE IF c = "t" THEN "\t" ELSE IF c = "r" THEN "\r" ELSE c

quote(s) == << "\"" >> \o join([i \in 1..Len(s) |-> escapeChar(s[i])], << >>) \o << "\"" >>

\* One object: the members in the order of the VehicleRecord fields; a
\* member whose value is undefined is left out.
stringifyRecord(r) ==
  LET text(name) == IF name = StartYearName THEN NumberToString(r.Start_Year)
                    ELSE quote(fieldText(r, name))
      defined(name) ==
        \/ name = StartYearName
        \/ name = ManufacturerName /\ r.Manufacturer # UNDEFINED
        \/ name = ModelName /\ r.Model # UNDEFINED
        \/ name = GenerationName /\ r.Generation # UNDEFINED
        \/ name = ModelCodeName /\ r.Model_Code # UNDEFINED
        \/ name = EndYearName /\ r.End_Year # UNDEFINED
      names   == SelectSeq(expectedHeaders, defined)
  IN  << "{" >> \o join([k \in 1..Len(names) |-> quote(names[k]) \o << ":" >> \o text(names[k])],
                        << "," >>) \o << "}" >>

JSONstringify(data) ==
  << "[" >> \o join([i \in 1..Len(data) |-> stringifyRecord(data[i])], << "," >>) \o << "]" >>

JSONFail == [ok |-> FALSE, value |-> << >>, next |-> 0]

\* The string literal whose body starts at position i (behind the opening quote)
RECURSIVE scanString(_, _, _)
scanString(s, i, acc) ==
  IF i > Len(s) THEN JSONFail
  ELSE IF s[i] = "\"" THEN [ok |-> TRUE, value |-> acc, next |-> i + 1]
  ELSE IF s[i] = "\\"
    THEN (IF i + 1 > Len(s) THEN JSONFail
          ELSE scanString(s, i + 2, Append(acc, unescapeChar(s[i + 1]))))
  ELSE scanString(s, i + 1, Append(acc, s[i]))

\* The number literal that starts at position i
scanNumber(s, i) ==
  LET neg  == i <= Len(s) /\ s[i] = "-"
      from == IF neg THEN i + 1 ELSE i
      n    == DigitRunLen(s, from)
      mag  == DigitsToNat(SubSeq(s, from, from + n - 1))
  IN  IF n = 0 THEN JSONFail
      ELSE [ok |-> TRUE, value |-> IF neg THEN 0 - mag ELSE mag, next |-> from + n]

scanValue(s, i) ==
  IF i > Len(s) THEN JSONFail
  ELSE IF s[i] = "\"" THEN scanString(s, i + 1, << >>)
  ELSE scanNumber(s, i)

\* The members of an object from position i on (behind "{" or ","),
\* collected as <<name, value>> pairs
RECURSIVE scanMembers(_, _, _)
scanMembers(s, i, acc) ==
  IF i > Len(s) \/ s[i] # "\"" THEN JSONFail
  ELSE LET key == scanString(s, i + 1, << >>)
       IN  IF ~key.ok \/ key.next > Len(s) \/ s[key.next] # ":" THEN JSONFail
           ELSE LET val == scanValue(s, key.next + 1)
                IN  IF ~val.ok \/ val.next > Len(s) THEN JSONFail
                    ELSE IF s[val.next] = ","
                      THEN scanMembers(s, val.next + 1, Append(acc, << key.value, val.value >>))
                    ELSE IF s[val.next] = "}"
                      THEN [ok |-> TRUE, value |-> Append(acc, << key.value, val.value >>),
                            next |-> val.next + 1]
                    ELSE JSONFail

\* The object read as a VehicleRecord: a member that is absent is undefined.
recordOfMembers(members) ==
  LET has(name) == \E k \in 1..Len(members) : members[k][1] = name
      get(name) == IF has(name)
                     THEN members[CHOOSE k \in 1..Len(members) :
                                    /\ members[k][1] = name
                                    /\ \A j \in 1..Len(members) : members[j][1] = name => j <= k][2]
                     ELSE UNDEFINED
  IN  [Manufacturer |-> get(ManufacturerName), Model |-> get(ModelName),
       Generation |-> get(GenerationName), Model_Code |-> get(ModelCodeName),
       Start_Year |-> get(StartYearName), End_Year |-> get(EndYearName)]

\* The elements of an array from position i on (behind "[" or ",")
RECURSIVE scanElements(_, _, _)
scanElements(s, i, acc) ==
  IF i > Len(s) \/ s[i] # "{" THEN JSONFail
  ELSE LET obj == scanMembers(s, i + 1, << >>)
       IN  IF ~obj.ok \/ obj.next > Len(s) THEN JSONFail
           ELSE IF s[obj.next] = ","
             THEN scanElements(s, obj.next + 1, Append(acc, recordOfMembers(obj.value)))
           ELSE IF s[obj.next] = "]" /\ obj.next = Len(s)
             THEN [ok |-> TRUE, value |-> Append(acc, recordOfMembers(obj.value)),
                   next |-> obj.next + 1]
           ELSE JSONFail

\* JSON.parse: ok is FALSE where JSON.parse throws a SyntaxError.
JSONparse(text) ==
  IF text = << "[", "]" >> THEN [ok |-> TRUE, value |-> << >>, next |-> 3]
  ELSE IF Len(text) = 0 \/ text[1] # "[" THEN JSONFail
  ELSE scanElements(text, 2, << >>)

(***************************************************************************)
(* src/App.tsx: constants, derived values and effects.                     *)
(***************************************************************************)
RECORDS_PER_PAGE == 50

\* The value null: of localStorage.getItem for an absent item, and of an
\* absent record.
NULL == << "null" >>

NullRecord == [null |-> TRUE]

\* getRecordKey without End_Year.
getRecordKey_NoEndYear(v) ==
  IF v = NullRecord THEN << >>
  ELSE LET str(p) == IF p = UNDEFINED THEN << >> ELSE p
           num(n) == IF n = 0 THEN << >> ELSE NumberToString(n)
           parts  == << str(v.Manufacturer), str(v.Model), str(v.Generation),
                        str(v.Model_Code), num(v.Start_Year) >>
       IN  join([k \in 1..Len(parts) |-> toLowerCase(trim(parts[k]))], << "#", "#" >>)

\* getRecordKey.  String(p || ''): an empty or undefined text and the number
\* 0 are falsy and give the empty text.
getRecordKey(v) ==
  IF v = NullRecord THEN << >>
  ELSE LET str(p) == IF p = UNDEFINED THEN << >> ELSE p
           num(n) == IF n = 0 THEN << >> ELSE NumberToString(n)
           parts  == << str(v.Manufacturer), str(v.Model), str(v.Generation),
                        str(v.Model_Code), num(v.Start_Year), str(v.End_Year) >>
       IN  join([k \in 1..Len(parts) |-> toLowerCase(trim(parts[k]))], << "#", "#" >>)

\* filteredData keeping the records that pass any of the three tests.
filteredData_AnyFacet(db, term, manufacturers, yearRange) ==
  LET matches(record) ==
        LET matchesSearch ==
              \/ term = << >>
              \/ includes(toLowerCase(record.Manufacturer), toLowerCase(term))
              \/ includes(toLowerCase(record.Model), toLowerCase(term))
              \/ includes(toLowerCase(record.Model_Code), toLowerCase(term))
            matchesManufacturer ==
              \/ Len(manufacturers) = 0
              \/ record.Manufacturer \in Range(manufacturers)
            matchesYear ==
              /\ record.Start_Year >= yearRange[1]
              /\ record.Start_Year <= yearRange[2]
        IN  matchesSearch \/ matchesManufacturer \/ matchesYear
  IN  SelectSeq(db, matches)

\* filteredData
filteredData(db, term, manufacturers, yearRange) ==
  LET matches(record) ==
        LET matchesSearch ==
              \/ term = << >>
              \/ includes(toLowerCase(record.Manufacturer), toLowerCase(term))
              \/ includes(toLowerCase(record.Model), toLowerCase(term))
              \/ includes(toLowerCase(record.Model_Code), toLowerCase(term))
            matchesManufacturer ==
              \/ Len(manufacturers) = 0
              \/ record.Manufacturer \in Range(manufacturers)
            matchesYear ==
              /\ record.Start_Year >= yearRange[1]
              /\ record.Start_Year <= yearRange[2]
        IN  matchesSearch /\ matchesManufacturer /\ matchesYear
  IN  SelectSeq(db, matches)

\* Math.max(1, Math.ceil(filteredData.length / RECORDS_PER_PAGE))
totalPages(view) ==
  LET pages == (Len(view) + RECORDS_PER_PAGE - 1) \div RECORDS_PER_PAGE
  IN  IF pages < 1 THEN 1 ELSE pages

\* paginatedData
paginatedData(view, page) ==
  LET start == (page - 1) * RECORDS_PER_PAGE
      end   == IF start + RECORDS_PER_PAGE < Len(view) THEN start + RECORDS_PER_PAGE
               ELSE Len(view)
  IN  SubSeq(view, start + 1, end)

\* The auto-save effect, run after every render that follows a change of the
\* database: what the store holds afterwards.
autoSave(db, stored) == IF Len(db) > 0 THEN JSONstringify(db) ELSE stored

\* The page-bounds effect doing nothing.
pageBounds_NoClamp(page, total) == page

\* The page-bounds effect: the current page after it has run.
pageBounds(page, total) == IF page > total /\ total > 0 THEN total ELSE page

\* The filter reset effect and the page-bounds effect, run in this order
\* after the render that follows a change of a filter: the first sets the
\* page to 1, the second, still seeing the page of that render, sets it to
\* the total when that page exceeds the total; the state update made last
\* is the one that stays.
filterEffects(page, total) == IF page > total /\ total > 0 THEN total ELSE 1

(***************************************************************************)
(* Bounds of the model and the inputs it draws.                            *)
(***************************************************************************)
\* How many records of INTERNAL_DB_MAIN and of INTERNAL_DB_PREMIUM the model
\* loads as the seed.
SeedMainLen == 1

SeedPremiumLen == 1

\* The longest list of candidates the provider returns.
MaxBatch == 2

\* How many file reads can be in flight.
MaxPendingReads == 1

\* How many rows the user ticks one by one.
MaxSelected == 1

\* How many handler runs a behaviour of the model has.
MaxSteps == 5

seedMain == SubSeq(INTERNAL_DB_MAIN, 1, SeedMainLen)

seedPremium == SubSeq(INTERNAL_DB_PREMIUM, 1, SeedPremiumLen)

\* A candidate that differs from the seed record "BMW 3 Series" in letter
\* case and in End_Year only.
candDup ==
  [Manufacturer |-> <<"b", "m", "w">>,
   Model |-> <<"3", " ", "s", "e", "r", "i", "e", "s">>,
   Generation |-> <<"7">>, Model_Code |-> <<"g", "2", "0">>,
   Start_Year |-> 2018, End_Year |-> <<"2", "0", "2", "3">>]

\* A candidate that is in no seed list.
candNew ==
  [Manufacturer |-> <<"B", "M", "W">>,
   Model |-> <<"X", "5">>,
   Generation |-> <<"4">>, Model_Code |-> <<"G", "0", "5">>,
   Start_Year |-> 2018, End_Year |-> <<"P", "r", "e", "s", "e", "n", "t">>]

SuggestionPool == {candDup, candNew}

\* The lists of candidates the provider can answer with.
Batches == UNION {[1..n -> SuggestionPool] : n \in 0..MaxBatch}

\* What ai.models.generateContent does: it rejects, or it answers with a
\* text that is not JSON, or with the JSON text of a list of candidates.
ProviderResponses ==
  {[kind |-> "reject", value |-> << >>], [kind |-> "unparsable", value |-> << >>]}
    \cup {[kind |-> "json", value |-> b] : b \in Batches}

\* A well-formed file: a new record, the same row again, and a row that
\* duplicates the seed record "BMW 3 Series".
fileValid ==
  << "M", "a", "n", "u", "f", "a", "c", "t", "u", "r", "e", "r", ",", "M",
     "o", "d", "e", "l", ",", "G", "e", "n", "e", "r", "a", "t", "i", "o",
     "n", ",", "M", "o", "d", "e", "l", "_", "C", "o", "d", "e", ",", "S",
     "t", "a", "r", "t", "_", "Y", "e", "a", "r", ",", "E", "n", "d", "_",
     "Y", "e", "a", "r", "\n", "T", "o", "y", "o", "t", "a", ",", "Y", "a",
     "r", "i", "s", ",", "M", "k", "4", ",", "X", "P", "2", "1", "0", ",",
     "2", "0", "2", "0", ",", "P", "r", "e", "s", "e", "n", "t", "\n", "T",
     "o", "y", "o", "t", "a", ",", "Y", "a", "r", "i", "s", ",", "M", "k",
     "4", ",", "X", "P", "2", "1", "0", ",", "2", "0", "2", "0", ",", "P",
     "r", "e", "s", "e", "n", "t", "\n", "B", "M", "W", ",", "3", " ", "S",
     "e", "r", "i", "e", "s", ",", "7", ",", "G", "2", "0", ",", "2", "0",
     "1", "8", ",", "2", "0", "2", "0", "\n" >>

\* A file whose header row lacks three of the six names.
fileNoHeader ==
  << "M", "a", "n", "u", "f", "a", "c", "t", "u", "r", "e", "r", ",", "M",
     "o", "d", "e", "l", ",", "S", "t", "a", "r", "t", "_", "Y", "e", "a",
     "r", "\n", "T", "o", "y", "o", "t", "a", ",", "Y", "a", "r", "i", "s",
     ",", "2", "0", "2", "0" >>

\* A file whose second data row has a Start_Year that is not a number.
fileBadYear ==
  << "M", "a", "n", "u", "f", "a", "c", "t", "u", "r", "e", "r", ",", "M",
     "o", "d", "e", "l", ",", "G", "e", "n", "e", "r", "a", "t", "i", "o",
     "n", ",", "M", "o", "d", "e", "l", "_", "C", "o", "d", "e", ",", "S",
     "t", "a", "r", "t", "_", "Y", "e", "a", "r", ",", "E", "n", "d", "_",
     "Y", "e", "a", "r", "\n", "T", "o", "y", "o", "t", "a", ",", "Y", "a",
     "r", "i", "s", ",", "M", "k", "4", ",", "X", "P", "2", "1", "0", ",",
     "2", "0", "2", "0", ",", "P", "r", "e", "s", "e", "n", "t", "\n", "T",
     "o", "y", "o", "t", "a", ",", "C", "o", "r", "o", "l", "l", "a", ",",
     "M", "k", "5", ",", "E", "2", "1", "0", ",", "a", "b", "c", ",", "P",
     "r", "e", "s", "e", "n", "t" >>

ImportFiles == {fileValid, fileNoHeader, fileBadYear}

\* What is typed into the search box.
SearchTerms == {<< >>, << "t", "o", "y" >>}

\* The positions the two year sliders are moved to.
YearInputs == {1950, 1981, 2025}

\* What localStorage holds under STORAGE_KEY when the process starts for the
\* first time: nothing, or a text that is not JSON.
corruptItem == << "[", "{" >>

InitialStorage == {NULL, corruptItem}

(***************************************************************************)
(* The state of the App component, the store and the reads in flight.      *)
(***************************************************************************)
VARIABLES
  mounted,             \* the effects of the first render have run
  database,            \* useState database
  storage,             \* localStorage item STORAGE_KEY, NULL when absent
  status,              \* useState status (AgentStatus)
  suggestions,         \* useState suggestions
  selectedRowKeys,     \* useState selectedRowKeys
  searchTerm,          \* useState searchTerm
  filterManufacturers, \* useState filterManufacturers
  filterYearRange,     \* useState filterYearRange
  currentPage,         \* useState currentPage
  showNoResultsModal,  \* useState showNoResultsModal
  pendingReads,        \* FileReader reads in flight, each with the database
                       \* its onload closure captured
  lastAlert,           \* the error of the last alert(...) of handleImportCSV
  lastResponse,        \* what the provider answered to the suggestion call
                       \* that ended last
  lastOp,              \* the handler that ran last
  steps,               \* the number of handler runs so far
  probe                \* argument and result of a function under test

vars ==
  << mounted, database, storage, status, suggestions, selectedRowKeys,
     searchTerm, filterManufacturers, filterYearRange, currentPage,
     showNoResultsModal, pendingReads, lastAlert, lastResponse, lastOp, steps,
     probe >>

filterVars == << searchTerm, filterManufacturers, filterYearRange >>

\* No suggestion call has ended yet.
NoResponse == [kind |-> "none"]

NoProbe == [fn |-> "none", args |-> << >>, done |-> FALSE, result |-> << >>]

\* The values of useState at the first render.
memoryInit ==
  /\ database = << >>
  /\ status = "IDLE"
  /\ suggestions = << >>
  /\ selectedRowKeys = {}
  /\ searchTerm = << >>
  /\ filterManufacturers = << >>
  /\ filterYearRange = << 1950, 2025 >>
  /\ currentPage = 1
  /\ showNoResultsModal = FALSE

Init ==
  /\ mounted = FALSE
  /\ memoryInit
  /\ storage \in InitialStorage
  /\ pendingReads = << >>
  /\ lastAlert = NoError
  /\ lastResponse = NoResponse
  /\ lastOp = "init"
  /\ steps = 0
  /\ probe = NoProbe

\* One more handler run, within the bound.
Tick == steps < MaxSteps /\ steps' = steps + 1

view == filteredData(database, searchTerm, filterManufacturers, filterYearRange)

\* The current page once the page-bounds effect has run on database db.
settledPage(db) ==
  pageBounds(currentPage,
             totalPages(filteredData(db, searchTerm, filterManufacturers, filterYearRange)))

\* The initial data load effect, followed by the effects its setDatabase
\* triggers.
Mount ==
  /\ ~mounted
  /\ Tick
  /\ LET savedData == storage
         combined  == sortDatabase(seedMain \o seedPremium)
         loaded    == IF savedData # NULL /\ savedData # << >> /\ JSONparse(savedData).ok
                        THEN JSONparse(savedData).value
                        ELSE combined
     IN  /\ database' = loaded
         /\ storage' = autoSave(loaded, storage)
         /\ currentPage' = settledPage(loaded)
  /\ mounted' = TRUE
  /\ lastOp' = "mount"
  /\ UNCHANGED << status, suggestions, selectedRowKeys, filterVars,
                  showNoResultsModal, pendingReads, lastAlert, lastResponse, probe >>

\* The page is loaded again: the component state starts afresh, the reads
\* and calls in flight are gone, the store is kept.
Restart ==
  /\ mounted
  /\ Tick
  /\ mounted' = FALSE
  /\ database' = << >>
  /\ status' = "IDLE"
  /\ suggestions' = << >>
  /\ selectedRowKeys' = {}
  /\ searchTerm' = << >>
  /\ filterManufacturers' = << >>
  /\ filterYearRange' = << 1950, 2025 >>
  /\ currentPage' = 1
  /\ showNoResultsModal' = FALSE
  /\ pendingReads' = << >>
  /\ lastOp' = "restart"
  /\ UNCHANGED << storage, lastAlert, lastResponse, probe >>

\* handleCreateNew, the user having confirmed.
handleCreateNew ==
  /\ mounted
  /\ Tick
  /\ database' = << >>
  /\ storage' = autoSave(<< >>, NULL)
  /\ selectedRowKeys' = {}
  /\ currentPage' = settledPage(<< >>)
  /\ lastOp' = "handleCreateNew"
  /\ UNCHANGED << mounted, status, suggestions, filterVars, showNoResultsModal,
                  pendingReads, lastAlert, lastResponse, probe >>

\* handleSuggest up to its await.  The button is disabled unless the status
\* is IDLE; without a valid target the handler returns at once.
handleSuggest ==
  /\ mounted
  /\ Tick
  /\ status = "IDLE"
  /\ \E validTarget \in BOOLEAN :
       status' = IF validTarget THEN "ANALYZING" ELSE status
  /\ lastOp' = "handleSuggest"
  /\ UNCHANGED << mounted, database, storage, suggestions, selectedRowKeys,
                  filterVars, currentPage, showNoResultsModal, pendingReads,
                  lastAlert, lastResponse, probe >>

\* suggestExpansion (src/geminiService.ts): the awaited call throws, or the
\* answer is parsed; a text that does not parse gives the empty list.
suggestExpansion(response) ==
  IF response.kind = "reject" THEN [threw |-> TRUE, value |-> << >>]
  ELSE IF response.kind = "unparsable" THEN [threw |-> FALSE, value |-> << >>]
  ELSE [threw |-> FALSE, value |-> response.value]

\* handleSuggest from its await on, with a catch block that empties the
\* database.
suggestResolved_FailureResets ==
  /\ mounted
  /\ Tick
  /\ status = "ANALYZING"
  /\ \E response \in ProviderResponses :
       LET answer == suggestExpansion(response)
       IN  /\ lastResponse' = response
           /\ IF answer.threw
                THEN /\ status' = "ERROR"
                     /\ database' = << >>
                     /\ UNCHANGED << suggestions, showNoResultsModal >>
              ELSE IF Len(answer.value) = 0
                THEN /\ showNoResultsModal' = TRUE
                     /\ status' = "IDLE"
                     /\ UNCHANGED << database, suggestions >>
              ELSE /\ suggestions' = answer.value
                   /\ status' = "READY_FOR_EXPANSION"
                   /\ UNCHANGED << database, showNoResultsModal >>
  /\ lastOp' = "suggestResolved"
  /\ UNCHANGED << mounted, storage, selectedRowKeys, filterVars,
                  currentPage, pendingReads, lastAlert, probe >>

\* handleSuggest from its await on.
suggestResolved ==
  /\ mounted
  /\ Tick
  /\ status = "ANALYZING"
  /\ \E response \in ProviderResponses :
       LET answer == suggestExpansion(response)
       IN  /\ lastResponse' = response
           /\ IF answer.threw
                THEN /\ status' = "ERROR"
                     /\ UNCHANGED << suggestions, showNoResultsModal >>
              ELSE IF Len(answer.value) = 0
                THEN /\ showNoResultsModal' = TRUE
                     /\ status' = "IDLE"
                     /\ UNCHANGED suggestions
              ELSE /\ suggestions' = answer.value
                   /\ status' = "READY_FOR_EXPANSION"
                   /\ UNCHANGED showNoResultsModal
  /\ lastOp' = "suggestResolved"
  /\ UNCHANGED << mounted, database, storage, selectedRowKeys, filterVars,
                  currentPage, pendingReads, lastAlert, probe >>

\* The candidates confirmAddition keeps: those that no record of db duplicates.
newRecords(db, candidates) ==
  SelectSeq(candidates, LAMBDA s : ~isDuplicate(db, s))

\* confirmAddition without the sort.
confirmedDatabase_Unsorted(db, candidates) == db \o newRecords(db, candidates)

\* What confirmAddition stores.
confirmedDatabase(db, candidates) == sortDatabase(db \o newRecords(db, candidates))

\* confirmAddition; its button is rendered while the status is
\* READY_FOR_EXPANSION.
confirmAddition ==
  /\ mounted
  /\ Tick
  /\ status = "READY_FOR_EXPANSION"
  /\ database' = confirmedDatabase(database, suggestions)
  /\ storage' = autoSave(database', storage)
  /\ suggestions' = << >>
  /\ status' = "IDLE"
  /\ currentPage' = settledPage(database')
  /\ lastOp' = "confirmAddition"
  /\ UNCHANGED << mounted, selectedRowKeys, filterVars, showNoResultsModal,
                  pendingReads, lastAlert, lastResponse, probe >>

\* The cancel button leaving the suggestions in place.
cancelSuggestions_KeepsList ==
  /\ mounted
  /\ Tick
  /\ status = "READY_FOR_EXPANSION"
  /\ status' = "IDLE"
  /\ lastOp' = "cancelSuggestions"
  /\ UNCHANGED << mounted, database, storage, suggestions, selectedRowKeys, filterVars,
                  currentPage, showNoResultsModal, pendingReads, lastAlert, lastResponse, probe >>

\* The two cancel buttons of the suggestion panel.
cancelSuggestions ==
  /\ mounted
  /\ Tick
  /\ status = "READY_FOR_EXPANSION"
  /\ suggestions' = << >>
  /\ status' = "IDLE"
  /\ lastOp' = "cancelSuggestions"
  /\ UNCHANGED << mounted, database, storage, selectedRowKeys, filterVars,
                  currentPage, showNoResultsModal, pendingReads, lastAlert, lastResponse, probe >>

\* The button of the no-results modal.
dismissNoResults ==
  /\ mounted
  /\ Tick
  /\ showNoResultsModal
  /\ showNoResultsModal' = FALSE
  /\ lastOp' = "dismissNoResults"
  /\ UNCHANGED << mounted, database, storage, status, suggestions, selectedRowKeys,
                  filterVars, currentPage, pendingReads, lastAlert, lastResponse, probe >>

\* handleImportCSV: a file is chosen and its read starts; onload closes over
\* the database of the render the handler belongs to.
handleImportCSV ==
  /\ mounted
  /\ Tick
  /\ Len(pendingReads) < MaxPendingReads
  /\ \E content \in ImportFiles :
       pendingReads' = Append(pendingReads, [content |-> content, database |-> database])
  /\ lastOp' = "handleImportCSV"
  /\ UNCHANGED << mounted, database, storage, status, suggestions, selectedRowKeys,
                  filterVars, currentPage, showNoResultsModal, lastAlert, lastResponse, probe >>

\* The merge loop testing every imported record against the database alone.
mergeImported_PreBatch(mergedData, importedData) ==
  mergedData \o SelectSeq(importedData, LAMBDA record : ~isDuplicate(mergedData, record))

\* The merge loop of reader.onload: each imported record is tested against
\* mergedData, which already holds the records pushed before it.
RECURSIVE mergeImported(_, _)
mergeImported(mergedData, importedData) ==
  IF Len(importedData) = 0 THEN mergedData
  ELSE mergeImported(IF isDuplicate(mergedData, Head(importedData))
                       THEN mergedData
                       ELSE Append(mergedData, Head(importedData)),
                     Tail(importedData))

\* What reader.onload stores when parseCSV has returned importedData.
importedDatabase(db, importedData) == sortDatabase(mergeImported(db, importedData))

RemoveAt(s, i) == SubSeq(s, 1, i - 1) \o SubSeq(s, i + 1, Len(s))

\* reader.onload of a read in flight.
readerOnload ==
  /\ mounted
  /\ Tick
  /\ \E i \in 1..Len(pendingReads) :
       LET read   == pendingReads[i]
           parsed == parseCSV(read.content)
       IN  /\ pendingReads' = RemoveAt(pendingReads, i)
           /\ IF parsed.ok
                THEN /\ database' = importedDatabase(read.database, parsed.records)
                     /\ storage' = autoSave(database', storage)
                     /\ currentPage' = settledPage(database')
                     /\ lastOp' = "importMerged"
                     /\ UNCHANGED lastAlert
                ELSE /\ lastAlert' = parsed.error
                     /\ lastOp' = "importFailed"
                     /\ UNCHANGED << database, storage, currentPage >>
  /\ UNCHANGED << mounted, status, suggestions, selectedRowKeys, filterVars,
                  showNoResultsModal, lastResponse, probe >>

\* The rows of the table: rendered unless the suggestion panel is shown.
pageRows ==
  IF status = "READY_FOR_EXPANSION" THEN << >> ELSE paginatedData(view, currentPage)

pageKeys == [k \in 1..Len(pageRows) |-> getRecordKey(pageRows[k])]

\* handleToggleRow, from the checkbox of a row of the page.
handleToggleRow ==
  /\ mounted
  /\ Tick
  /\ \E key \in Range(pageKeys) :
       IF key \in selectedRowKeys
         THEN selectedRowKeys' = selectedRowKeys \ {key}
         ELSE /\ Cardinality(selectedRowKeys) < MaxSelected
              /\ selectedRowKeys' = selectedRowKeys \cup {key}
  /\ lastOp' = "handleToggleRow"
  /\ UNCHANGED << mounted, database, storage, status, suggestions, filterVars,
                  currentPage, showNoResultsModal, pendingReads, lastAlert, lastResponse, probe >>

\* handleToggleSelectPage, from the checkbox of the table head.
handleToggleSelectPage ==
  /\ mounted
  /\ Tick
  /\ Len(pageRows) > 0
  /\ LET allOnPageSelected == \A k \in Range(pageKeys) : k \in selectedRowKeys
     IN  selectedRowKeys' = IF allOnPageSelected
                              THEN selectedRowKeys \ Range(pageKeys)
                              ELSE selectedRowKeys \cup Range(pageKeys)
  /\ lastOp' = "handleToggleSelectPage"
  /\ UNCHANGED << mounted, database, storage, status, suggestions, filterVars,
                  currentPage, showNoResultsModal, pendingReads, lastAlert, lastResponse, probe >>

\* What handleDeleteSelected keeps of the database.
withoutSelected(db, keysToDelete) ==
  SelectSeq(db, LAMBDA record : getRecordKey(record) \notin keysToDelete)

\* handleDeleteSelected, the user having confirmed; the button is rendered
\* while rows are selected.
handleDeleteSelected ==
  /\ mounted
  /\ Tick
  /\ Cardinality(selectedRowKeys) # 0
  /\ database' = withoutSelected(database, selectedRowKeys)
  /\ storage' = autoSave(database', storage)
  /\ selectedRowKeys' = {}
  /\ currentPage' = settledPage(database')
  /\ lastOp' = "handleDeleteSelected"
  /\ UNCHANGED << mounted, status, suggestions, filterVars, showNoResultsModal,
                  pendingReads, lastAlert, lastResponse, probe >>

\* The manufacturers of the facet list: the keys of manufacturerCounts.
facetManufacturers == {database[i].Manufacturer : i \in 1..Len(database)}

\* What a change of the filters to (term, manufacturers, yearRange) leaves
\* once the effects have run: the page and the selection.
filtersChanged(term, manufacturers, yearRange) ==
  /\ searchTerm' = term
  /\ filterManufacturers' = manufacturers
  /\ filterYearRange' = yearRange
  /\ currentPage' = filterEffects(currentPage,
                                  totalPages(filteredData(database, term, manufacturers, yearRange)))
  /\ selectedRowKeys' = {}

\* onChange of the search box, shown with the table.
setSearchTerm ==
  /\ mounted
  /\ Tick
  /\ status # "READY_FOR_EXPANSION"
  /\ \E term \in SearchTerms :
       /\ term # searchTerm
       /\ filtersChanged(term, filterManufacturers, filterYearRange)
  /\ lastOp' = "setSearchTerm"
  /\ UNCHANGED << mounted, database, storage, status, suggestions,
                  showNoResultsModal, pendingReads, lastAlert, lastResponse, probe >>

\* toggleFilterManufacturer, from a button of the facet list.
toggleFilterManufacturer ==
  /\ mounted
  /\ Tick
  /\ \E m \in facetManufacturers :
       filtersChanged(searchTerm,
                      IF m \in Range(filterManufacturers)
                        THEN SelectSeq(filterManufacturers, LAMBDA item : item # m)
                        ELSE Append(filterManufacturers, m),
                      filterYearRange)
  /\ lastOp' = "toggleFilterManufacturer"
  /\ UNCHANGED << mounted, database, storage, status, suggestions,
                  showNoResultsModal, pendingReads, lastAlert, lastResponse, probe >>

\* onChange of one of the two year sliders.
setFilterYearRange ==
  /\ mounted
  /\ Tick
  /\ \E end \in 1..2, year \in YearInputs :
       /\ year # filterYearRange[end]
       /\ filtersChanged(searchTerm, filterManufacturers,
                         [filterYearRange EXCEPT ![end] = year])
  /\ lastOp' = "setFilterYearRange"
  /\ UNCHANGED << mounted, database, storage, status, suggestions,
                  showNoResultsModal, pendingReads, lastAlert, lastResponse, probe >>

\* clearFilters: the arrays it sets are new ones, so the filter reset effect
\* runs also when no filter was set.
clearFilters ==
  /\ mounted
  /\ Tick
  /\ filtersChanged(<< >>, << >>, << 1950, 2025 >>)
  /\ lastOp' = "clearFilters"
  /\ UNCHANGED << mounted, database, storage, status, suggestions,
                  showNoResultsModal, pendingReads, lastAlert, lastResponse, probe >>

\* The button to the previous page: rendered with the table when there is
\* more than one page, disabled on page 1.
prevPage ==
  /\ mounted
  /\ Tick
  /\ status # "READY_FOR_EXPANSION"
  /\ totalPages(view) > 1
  /\ currentPage # 1
  /\ currentPage' = pageBounds(IF currentPage - 1 < 1 THEN 1 ELSE currentPage - 1,
                               totalPages(view))
  /\ lastOp' = "prevPage"
  /\ UNCHANGED << mounted, database, storage, status, suggestions, selectedRowKeys,
                  filterVars, showNoResultsModal, pendingReads, lastAlert,
                  lastResponse, probe >>

\* The button to the next page: disabled on the last page.
nextPage ==
  /\ mounted
  /\ Tick
  /\ status # "READY_FOR_EXPANSION"
  /\ totalPages(view) > 1
  /\ currentPage # totalPages(view)
  /\ currentPage' = pageBounds(IF currentPage + 1 > totalPages(view) THEN totalPages(view)
                               ELSE currentPage + 1,
                               totalPages(view))
  /\ lastOp' = "nextPage"
  /\ UNCHANGED << mounted, database, storage, status, suggestions, selectedRowKeys,
                  filterVars, showNoResultsModal, pendingReads, lastAlert,
                  lastResponse, probe >>

Next ==
  \/ Mount
  \/ Restart
  \/ handleCreateNew
  \/ handleSuggest
  \/ suggestResolved
  \/ confirmAddition
  \/ cancelSuggestions
  \/ dismissNoResults
  \/ handleImportCSV
  \/ readerOnload
  \/ handleToggleRow
  \/ handleToggleSelectPage
  \/ handleDeleteSelected

Spec == Init /\ [][Next]_vars

(***************************************************************************)
(* The view controls (filters, pages, selection of a page, deletion) over  *)
(* a dataset of several pages.                                             *)
(***************************************************************************)
\* How many records of each of its two manufacturers the large dataset has.
MaxPerMaker == 60

\* How many handlers run over the large dataset.
MaxViewSteps == 4

\* A dataset as imports leave it: MaxPerMaker records of BMW and as many of
\* Toyota, one per Start_Year from 1951 on, in the order of sortDatabase.
largeDatabase ==
  [n \in 1..(2 * MaxPerMaker) |->
     [Manufacturer |-> IF n <= MaxPerMaker THEN << "B", "M", "W" >> ELSE << "T", "o", "y", "o", "t", "a" >>,
      Model        |-> << "X" >>,
      Generation   |-> << "1" >>,
      Model_Code   |-> << "C" >>,
      Start_Year   |-> 1950 + (IF n <= MaxPerMaker THEN n ELSE n - MaxPerMaker),
      End_Year     |-> << "P", "r", "e", "s", "e", "n", "t" >>]]

\* A read of fileValid that was started when the database was the seed and
\* has not ended yet.
staleRead == [content |-> fileValid, database |-> sortDatabase(seedMain \o seedPremium)]

\* The component holds the large dataset, stored, and shows its first page;
\* the handler runs that led there are counted as made.
InitView ==
  /\ mounted = TRUE
  /\ database = largeDatabase
  /\ storage = JSONstringify(largeDatabase)
  /\ status = "IDLE"
  /\ suggestions = << >>
  /\ selectedRowKeys = {}
  /\ searchTerm = << >>
  /\ filterManufacturers = << >>
  /\ filterYearRange = << 1950, 2025 >>
  /\ currentPage = 1
  /\ showNoResultsModal = FALSE
  /\ pendingReads \in {<< >>, << staleRead >>}
  /\ lastAlert = NoError
  /\ lastResponse = NoResponse
  /\ lastOp = "init"
  /\ steps = MaxSteps - MaxViewSteps
  /\ probe = NoProbe

NextView ==
  \/ setSearchTerm
  \/ toggleFilterManufacturer
  \/ setFilterYearRange
  \/ clearFilters
  \/ prevPage
  \/ nextPage
  \/ handleToggleSelectPage
  \/ handleDeleteSelected
  \/ handleCreateNew
  \/ readerOnload

SpecView == InitView /\ [][NextView]_vars

(***************************************************************************)
(* The agent status under a user who lets a suggestion run to its end: a   *)
(* suggestion is started while enough handler runs are left for its        *)
(* answer and for the confirm or cancel that follows, the provider's       *)
(* promise settles, and the suggestion panel is left by one of its         *)
(* buttons; the other handlers run between suggestions.  The page is not   *)
(* loaded again.                                                           *)
(***************************************************************************)
\* n more handler runs are within the bound.
reserve(n) == steps + n <= MaxSteps

\* The handlers outside the suggestion cycle, run while no suggestion is
\* under way.
besideSuggestion ==
  /\ status \in {"IDLE", "ERROR"}
  /\ \/ dismissNoResults
     \/ handleCreateNew
     \/ handleImportCSV
     \/ readerOnload
     \/ handleToggleRow
     \/ handleToggleSelectPage
     \/ handleDeleteSelected

NextStatus ==
  \/ Mount
  \/ reserve(3) /\ handleSuggest
  \/ suggestResolved
  \/ confirmAddition
  \/ cancelSuggestions
  \/ besideSuggestion

SpecStatus ==
  /\ Init
  /\ [][NextStatus]_vars
  /\ WF_vars(suggestResolved)
  /\ WF_vars(cancelSuggestions)

(***************************************************************************)
(* The functions of src/utils.ts and getRecordKey on their own: the        *)
(* arguments are drawn at the start, an action applies the function.       *)
(***************************************************************************)
\* The longest list of existing records isDuplicate is applied to.
MaxExisting == 2

\* The longest dataset that is encoded and decoded again.
MaxDataset == 2

recBMW == INTERNAL_DB_PREMIUM[1]

\* recBMW in other letter case
recCase ==
  [Manufacturer |-> <<"b", "m", "w">>,
   Model |-> <<"3", " ", "S", "E", "R", "I", "E", "S">>,
   Generation |-> <<"7">>, Model_Code |-> <<"g", "2", "0">>,
   Start_Year |-> 2018, End_Year |-> <<"P", "r", "e", "s", "e", "n", "t">>]

\* recBMW with another End_Year
recEnd == [recBMW EXCEPT !.End_Year = <<"2", "0", "2", "3">>]

\* recBMW with another Start_Year
recYear == [recBMW EXCEPT !.Start_Year = 2019]

\* recBMW with another Model_Code
recCode == [recBMW EXCEPT !.Model_Code = <<"G", "2", "1">>]

\* recBMW with white space around its fields
recPadded ==
  [Manufacturer |-> <<" ", "B", "M", "W">>,
   Model |-> <<"3", " ", "S", "e", "r", "i", "e", "s", " ">>,
   Generation |-> <<"7", " ">>, Model_Code |-> <<" ", "G", "2", "0">>,
   Start_Year |-> 2018, End_Year |-> <<" ", "P", "r", "e", "s", "e", "n", "t", " ">>]

\* recBMW with End_Year in other letter case
recEndCase == [recBMW EXCEPT !.End_Year = <<"P", "R", "E", "S", "E", "N", "T">>]

DupUniverse == {recBMW, recCase, recEnd, recYear, recCode}

KeyUniverse == {recBMW, recCase, recEnd, recYear, recPadded, recEndCase, NullRecord}

\* Records for the codec: text without a comma and without white space at
\* its ends, Generation all digits or without a digit.
recPlain ==
  [Manufacturer |-> <<>>,
   Model |-> <<"I", "o", "n", "i", "q", " ", "5">>,
   Generation |-> <<"M", "k">>, Model_Code |-> <<>>,
   Start_Year |-> 0, End_Year |-> <<>>]

recNegative ==
  [Manufacturer |-> <<"M", "e", "r", "c", "e", "d", "e", "s", "-", "B", "e", "n", "z">>,
   Model |-> <<"C", "-", "C", "l", "a", "s", "s">>,
   Generation |-> <<"0", "0", "7">>, Model_Code |-> <<"W", "2", "0", "6">>,
   Start_Year |-> -44, End_Year |-> <<"P", "r", "e", "s", "e", "n", "t">>]

\* A record whose Model holds a line break.
recTwoLines ==
  [Manufacturer |-> <<"B", "M", "W">>,
   Model |-> <<"3", "\n", "S", "e", "r", "i", "e", "s">>,
   Generation |-> <<"7">>, Model_Code |-> <<"G", "2", "0">>,
   Start_Year |-> 2018, End_Year |-> <<"P", "r", "e", "s", "e", "n", "t">>]

CodecUniverse == {recBMW, INTERNAL_DB_MAIN[1], recPlain, recNegative, recTwoLines}

SeqsUpTo(S, n) == UNION {[1..k -> S] : k \in 0..n}

\* Texts with fewer than two non-blank lines: the empty text,
textEmpty ==
  << >>

\* blank lines only,
textBlankLines ==
  << "\n", " ", " ", "\n", "\n" >>

\* the header row alone,
textHeaderOnly ==
  << "M", "a", "n", "u", "f", "a", "c", "t", "u", "r", "e", "r", ",", "M",
     "o", "d", "e", "l", ",", "G", "e", "n", "e", "r", "a", "t", "i", "o",
     "n", ",", "M", "o", "d", "e", "l", "_", "C", "o", "d", "e", ",", "S",
     "t", "a", "r", "t", "_", "Y", "e", "a", "r", ",", "E", "n", "d", "_",
     "Y", "e", "a", "r" >>

\* the header row and a blank line,
textHeaderAndBlank ==
  << "M", "a", "n", "u", "f", "a", "c", "t", "u", "r", "e", "r", ",", "M",
     "o", "d", "e", "l", ",", "G", "e", "n", "e", "r", "a", "t", "i", "o",
     "n", ",", "M", "o", "d", "e", "l", "_", "C", "o", "d", "e", ",", "S",
     "t", "a", "r", "t", "_", "Y", "e", "a", "r", ",", "E", "n", "d", "_",
     "Y", "e", "a", "r", "\n", " ", "\n" >>

\* one data row without a header row.
textOneLine ==
  << "T", "o", "y", "o", "t", "a", ",", "Y", "a", "r", "i", "s", ",", "M",
     "k", "4", ",", "X", "P", "2", "1", "0", ",", "2", "0", "2", "0", ",",
     "P", "r", "e", "s", "e", "n", "t", "\n" >>

ShortTexts ==
  {textEmpty, textBlankLines, textHeaderOnly, textHeaderAndBlank, textOneLine}

\* The longest run of lines that follows the header row of a decoded text.
MaxLines == 3

headerLine == join(expectedHeaders, << "," >>)

\* Lines of a decoded text: a blank line,
lineBlank == << " " >>

\* two rows of six values,
lineYaris == << "T", "o", "y", "o", "t", "a", ",", "Y", "a", "r", "i", "s", ",", "M", "k", "4", ",", "X", "P", "2", "1", "0", ",", "2", "0", "2", "0", ",", "P", "r", "e", "s", "e", "n", "t" >>

lineBMW == << "B", "M", "W", ",", "3", " ", "S", "e", "r", "i", "e", "s", ",", "7", ",", "G", "2", "0", ",", "2", "0", "1", "8", ",", "2", "0", "2", "0" >>

\* a row of six values whose Start_Year is no number,
lineBadYear == << "T", "o", "y", "o", "t", "a", ",", "C", "o", "r", "o", "l", "l", "a", ",", "M", "k", "5", ",", "E", "2", "1", "0", ",", "a", "b", "c", ",", "P", "r", "e", "s", "e", "n", "t" >>

\* a row of three values,
lineShort == << "T", "o", "y", "o", "t", "a", ",", "A", "y", "g", "o", ",", "2" >>

\* and a row of five values whose fifth is no number.
lineShortBadYear == << "T", "o", "y", "o", "t", "a", ",", "A", "y", "g", "o", ",", "M", "k", "2", ",", "A", "B", "4", "0", ",", "a", "b", "c" >>

LinePool == {lineBlank, lineYaris, lineBMW, lineBadYear, lineShort, lineShortBadYear}

\* The texts made of the header row, with or without a blank line before
\* it, and up to MaxLines lines of the pool.
DecodeTexts ==
  {join(lead \o << headerLine >> \o body, << "\n" >>) :
     lead \in {<< >>, << lineBlank >>}, body \in SeqsUpTo(LinePool, MaxLines)}

\* Generation texts: with a digit after letters, without a digit, with two
\* runs of digits,
genMk5 == << "M", "k", "5" >>

genWords == << "G", "e", "n", "e", "r", "a", "t", "i", "o", "n", " ", "V" >>

genTwoRuns == << "M", "k", "1", "2", "b", "3" >>

\* and a digit alone, the empty text, a number, a run of digits in front,
\* a Roman numeral.
GenerationTexts ==
  {genMk5, genWords, genTwoRuns,
   << "5" >>, << >>, << "1", "2" >>,
   << "7", "t", "h", " ", "(", "G", "2", "0", ")" >>, << "I", "V" >>}

\* A text of the header row and one row whose Generation is g.
generationFile(g) ==
  join(<< headerLine,
          join(<< << "T", "o", "y", "o", "t", "a" >>, << "Y", "a", "r", "i", "s" >>, g,
                  << "X", "P", "2", "1", "0" >>, << "2", "0", "2", "0" >>,
                  << "P", "r", "e", "s", "e", "n", "t" >> >>, << "," >>) >>,
       << "\n" >>)

GenerationFiles == {generationFile(g) : g \in GenerationTexts}

\* The name of a column that is none of the six.
ExtraName == << "N", "o", "t", "e", "s" >>

\* The values of a data row, by column name.
cellsYaris ==
  (ManufacturerName :> << "T", "o", "y", "o", "t", "a" >>) @@ (ModelName :> << "Y", "a", "r", "i", "s" >>) @@ (GenerationName :> << "M", "k", "4" >>) @@
  (ModelCodeName :> << "X", "P", "2", "1", "0" >>) @@ (StartYearName :> << "2", "0", "2", "0" >>) @@ (EndYearName :> << "P", "r", "e", "s", "e", "n", "t" >>) @@
  (ExtraName :> << "n", "1" >>)

cellsBMW ==
  (ManufacturerName :> << "B", "M", "W" >>) @@ (ModelName :> << "3", " ", "S", "e", "r", "i", "e", "s" >>) @@ (GenerationName :> << "7" >>) @@
  (ModelCodeName :> << "G", "2", "0" >>) @@ (StartYearName :> << "2", "0", "1", "8" >>) @@ (EndYearName :> << "2", "0", "2", "0" >>) @@
  (ExtraName :> << "n", "2" >>)

\* The data rows of a text whose columns are laid out anew.
CellRows == << cellsYaris, cellsBMW >>

\* The header rows: the six names in every order, alone or with the extra
\* column put in at any place.
Layouts ==
  LET n == Len(expectedHeaders)
      reordered == {[k \in 1..n |-> expectedHeaders[p[k]]] : p \in Permutations(1..n)}
  IN  reordered \cup
      {SubSeq(h, 1, at - 1) \o << ExtraName >> \o SubSeq(h, at, n) :
         h \in reordered, at \in 1..(n + 1)}

\* The text of the rows under a header row, every row in the header's
\* column order.
layoutText(layout, rows) ==
  join(<< join(layout, << "," >>) >> \o
       [i \in 1..Len(rows) |-> join([k \in 1..Len(layout) |-> rows[i][layout[k]]], << "," >>)],
       << "\n" >>)

\* The header rows of seven columns with each of the seven names in turn
\* as the last column, the other names in the order of expectedHeaders.
LastColumnLayouts ==
  {SelectSeq(expectedHeaders \o << ExtraName >>, LAMBDA h : h # name) \o << name >> :
     name \in Range(expectedHeaders) \cup {ExtraName}}

\* The text of the rows under a header row, every row without the value of
\* the header's last column: one value fewer than the header has names.
raggedText(layout, rows) ==
  join(<< join(layout, << "," >>) >> \o
       [i \in 1..Len(rows) |->
          join([k \in 1..(Len(layout) - 1) |-> rows[i][layout[k]]], << "," >>)],
       << "\n" >>)

\* The longest dataset that is filtered, and the longest that is sorted.
MaxFiltered == 2

MaxSorted == 3

\* A record that the search term bmw finds by its Model, of another
\* manufacturer.
recAlpina ==
  [Manufacturer |-> <<"A", "l", "p", "i", "n", "a">>,
   Model |-> <<"B", "M", "W", " ", "B", "3">>,
   Generation |-> <<"1">>, Model_Code |-> <<"G", "2", "0">>,
   Start_Year |-> 2020, End_Year |-> <<"P", "r", "e", "s", "e", "n", "t">>]

\* A record whose Start_Year lies outside the sliders' range.
recOld == [INTERNAL_DB_MAIN[1] EXCEPT !.Start_Year = 1949]

FilterUniverse == {recBMW, INTERNAL_DB_MAIN[1], recAlpina, recOld}

FilterTerms == {<< >>, << "b", "m", "w" >>, << "G", "2" >>, << "z", "z" >>}

FilterManufacturerLists ==
  {<< >>, << << "B", "M", "W" >> >>, << << "b", "m", "w" >> >>, << << "T", "o", "y", "o", "t", "a" >>, << "B", "M", "W" >> >>}

FilterYearRanges == {<< 1950, 2025 >>, << 2019, 2025 >>, << 2018, 2018 >>, << 2025, 1950 >>}

SortUniverse == {recBMW, recEnd, recYear, recCase, INTERNAL_DB_MAIN[1]}

ProbeInputs ==
  {[fn |-> "isDuplicate", args |-> << existing, record >>, done |-> FALSE, result |-> << >>] :
      existing \in SeqsUpTo(DupUniverse, MaxExisting), record \in DupUniverse}
  \cup
  {[fn |-> "getRecordKey", args |-> << a, b >>, done |-> FALSE, result |-> << >>] :
      a \in KeyUniverse, b \in KeyUniverse}
  \cup
  {[fn |-> "roundTrip", args |-> << data >>, done |-> FALSE, result |-> << >>] :
      data \in SeqsUpTo(CodecUniverse, MaxDataset)}
  \cup
  {[fn |-> "parseCSV", args |-> << content >>, done |-> FALSE, result |-> << >>] :
      content \in ShortTexts \cup ImportFiles \cup DecodeTexts \cup GenerationFiles}
  \cup
  {[fn |-> "cleanGeneration", args |-> << val >>, done |-> FALSE, result |-> << >>] :
      val \in GenerationTexts}
  \cup
  {[fn |-> "filteredData", args |-> << db, term, manufacturers, yearRange >>,
    done |-> FALSE, result |-> << >>] :
      db \in SeqsUpTo(FilterUniverse, MaxFiltered), term \in FilterTerms,
      manufacturers \in FilterManufacturerLists, yearRange \in FilterYearRanges}
  \cup
  {[fn |-> "sortDatabase", args |-> << data >>, done |-> FALSE, result |-> << >>] :
      data \in SeqsUpTo(SortUniverse, MaxSorted)}
  \cup
  {[fn |-> "parseLayout", args |-> << layout, rows >>, done |-> FALSE, result |-> << >>] :
      layout \in Layouts, rows \in {CellRows}}
  \cup
  {[fn |-> "parseRagged", args |-> << layout, rows >>, done |-> FALSE, result |-> << >>] :
      layout \in LastColumnLayouts, rows \in {CellRows}}

InitPure ==
  /\ mounted = FALSE
  /\ memoryInit
  /\ storage = NULL
  /\ pendingReads = << >>
  /\ lastAlert = NoError
  /\ lastResponse = NoResponse
  /\ lastOp = "init"
  /\ steps = 0
  /\ probe \in ProbeInputs

appVars ==
  << mounted, database, storage, status, suggestions, selectedRowKeys,
     searchTerm, filterManufacturers, filterYearRange, currentPage,
     showNoResultsModal, pendingReads, lastAlert, lastResponse, lastOp, steps >>

applyIsDuplicate ==
  /\ probe.fn = "isDuplicate" /\ ~probe.done
  /\ probe' = [probe EXCEPT !.done = TRUE,
                            !.result = isDuplicate(probe.args[1], probe.args[2])]
  /\ UNCHANGED appVars

applyGetRecordKey ==
  /\ probe.fn = "getRecordKey" /\ ~probe.done
  /\ probe' = [probe EXCEPT !.done = TRUE,
                            !.result = << getRecordKey(probe.args[1]),
                                          getRecordKey(probe.args[2]) >>]
  /\ UNCHANGED appVars

applyRoundTrip ==
  /\ probe.fn = "roundTrip" /\ ~probe.done
  /\ probe' = [probe EXCEPT !.done = TRUE,
                            !.result = parseCSV(convertToCSV(probe.args[1]))]
  /\ UNCHANGED appVars

applyParseCSV ==
  /\ probe.fn = "parseCSV" /\ ~probe.done
  /\ probe' = [probe EXCEPT !.done = TRUE, !.result = parseCSV(probe.args[1])]
  /\ UNCHANGED appVars

\* parseCSV applied to the rows under the header row of the layout and to
\* the same rows under the six names in the order of expectedHeaders.
applyParseLayout ==
  /\ probe.fn = "parseLayout" /\ ~probe.done
  /\ probe' = [probe EXCEPT !.done = TRUE,
                            !.result = << parseCSV(layoutText(probe.args[1], probe.args[2])),
                                          parseCSV(layoutText(expectedHeaders, probe.args[2])) >>]
  /\ UNCHANGED appVars

applyFilteredData ==
  /\ probe.fn = "filteredData" /\ ~probe.done
  /\ probe' = [probe EXCEPT !.done = TRUE,
                            !.result = filteredData(probe.args[1], probe.args[2],
                                                    probe.args[3], probe.args[4])]
  /\ UNCHANGED appVars

\* sortDatabase applied, and applied again to what it returned.
applySortDatabase ==
  /\ probe.fn = "sortDatabase" /\ ~probe.done
  /\ probe' = [probe EXCEPT !.done = TRUE,
                            !.result = << sortDatabaseCall(probe.args[1]),
                                          sortDatabaseCall(sortDatabaseCall(probe.args[1]).returned) >>]
  /\ UNCHANGED appVars

\* parseCSV applied to rows that are one value short of the header row.
applyParseRagged ==
  /\ probe.fn = "parseRagged" /\ ~probe.done
  /\ probe' = [probe EXCEPT !.done = TRUE,
                            !.result = parseCSV(raggedText(probe.args[1], probe.args[2]))]
  /\ UNCHANGED appVars

\* cleanGeneration applied, and applied again to what it returned.
applyCleanGeneration ==
  /\ probe.fn = "cleanGeneration" /\ ~probe.done
  /\ probe' = [probe EXCEPT !.done = TRUE,
                            !.result = << cleanGeneration(probe.args[1]),
                                          cleanGeneration(cleanGeneration(probe.args[1])) >>]
  /\ UNCHANGED appVars

NextPure ==
  \/ applyIsDuplicate
  \/ applyGetRecordKey
  \/ applyRoundTrip
  \/ applyParseCSV
  \/ applyParseLayout
  \/ applyFilteredData
  \/ applySortDatabase
  \/ applyCleanGeneration
  \/ applyParseRagged

SpecPure == InitPure /\ [][NextPure]_vars

(***************************************************************************)
(* Properties of the dataset held by the App component (Spec).             *)
(***************************************************************************)

\* C1: in every reachable state no two records of the dataset have the same
\* identity key.
C1_UniqueIdentityKeys ==
  \A i, j \in 1..Len(database) :
    i # j => getRecordKey(database[i]) # getRecordKey(database[j])

\* C2: in every reachable state the dataset is in canonical order: each
\* record is followed by one that is not smaller by Manufacturer, then
\* Model, then Start_Year.
C2_DatasetSorted ==
  \A i \in 1..(Len(database) - 1) :
    \/ localeCompare(database[i].Manufacturer, database[i + 1].Manufacturer) < 0
    \/ /\ localeCompare(database[i].Manufacturer, database[i + 1].Manufacturer) = 0
       /\ localeCompare(database[i].Model, database[i + 1].Model) < 0
    \/ /\ localeCompare(database[i].Manufacturer, database[i + 1].Manufacturer) = 0
       /\ localeCompare(database[i].Model, database[i + 1].Model) = 0
       /\ database[i].Start_Year <= database[i + 1].Start_Year

\* A merge has put a new record in front of a record that was there before.
C2_Witness ==
  /\ lastOp \in {"confirmAddition", "importMerged"}
  /\ \E i \in 1..(Len(database) - 1) :
       /\ database[i] \notin Range(seedMain \o seedPremium)
       /\ database[i + 1] \in Range(seedMain \o seedPremium)

\* C3: after every mutation of the dataset (import merge, AI confirm,
\* deletion of the selection) the persisted snapshot is the in-memory dataset.
C3_WriteThrough ==
  lastOp \in {"importMerged", "confirmAddition", "handleDeleteSelected"}
    => /\ storage # NULL
       /\ JSONparse(storage).ok
       /\ JSONparse(storage).value = database

\* The number of candidates that no record of db duplicates.
nonDuplicates(db, candidates) ==
  Cardinality({k \in 1..Len(candidates) : ~isDuplicate(db, candidates[k])})

\* The number of candidates that neither a record of db nor an earlier
\* candidate of the batch duplicates.
nonDuplicatesInBatch(db, candidates) ==
  Cardinality({k \in 1..Len(candidates) :
                 ~isDuplicate(db \o SubSeq(candidates, 1, k - 1), candidates[k])})

C5_SuggestionsNeedConfirmation ==
  [][/\ lastOp' \in {"handleSuggest", "suggestResolved", "cancelSuggestions"}
          => database' = database /\ storage' = storage
     /\ lastOp' = "cancelSuggestions"
          => suggestions' = << >> /\ status' = "IDLE"]_vars

\* Candidates that were not in the dataset have been cancelled.
C5_Witness ==
  /\ lastOp = "cancelSuggestions"
  /\ status = "IDLE"
  /\ suggestions = << >>
  /\ mounted
  /\ \E r \in SuggestionPool : ~isDuplicate(database, r)

\* C10: the completion of a read whose text does not decode (a required
\* header is missing, or a row's Start_Year is not a number) leaves the
\* dataset, the persisted snapshot, the selection and the current page as
\* they were.
C10_FailedImportChangesNothing ==
  [][(/\ lastOp' \in {"importMerged", "importFailed"}
      /\ \E i \in 1..Len(pendingReads) :
           /\ pendingReads' = RemoveAt(pendingReads, i)
           /\ pendingReads[i].content \in {fileNoHeader, fileBadYear})
       => /\ database' = database
          /\ storage' = storage
          /\ selectedRowKeys' = selectedRowKeys
          /\ currentPage' = currentPage]_vars

\* An import has failed at the third line of its text, behind a valid row,
\* while rows were selected.
C10_Witness ==
  /\ lastOp = "importFailed"
  /\ lastAlert.kind = "year"
  /\ lastAlert.line = 3
  /\ selectedRowKeys # {}
  /\ Len(database) > 0

(***************************************************************************)
(* Properties of the functions on their own (SpecPure).                    *)
(***************************************************************************)
\* Two texts are equal up to the case of their letters.
sameIgnoringCase(a, b) ==
  /\ Len(a) = Len(b)
  /\ \A i \in 1..Len(a) :
       \/ a[i] = b[i]
       \/ \E k \in 1..Len(UpperChars) : {a[i], b[i]} = {UpperChars[k], LowerChars[k]}

\* C6: isDuplicate(existing, record) is true exactly when a record of
\* existing equals record on Manufacturer, Model, Generation and Model_Code
\* up to letter case and on Start_Year; a record of existing that differs
\* from record in End_Year only makes it true.
C6_IsDuplicateIgnoresEndYear ==
  (probe.fn = "isDuplicate" /\ probe.done) =>
    LET existing == probe.args[1]
        record   == probe.args[2]
    IN  /\ probe.result =
             (\E e \in Range(existing) :
                /\ sameIgnoringCase(e.Manufacturer, record.Manufacturer)
                /\ sameIgnoringCase(e.Model, record.Model)
                /\ sameIgnoringCase(e.Generation, record.Generation)
                /\ sameIgnoringCase(e.Model_Code, record.Model_Code)
                /\ e.Start_Year = record.Start_Year)
        /\ (\E e \in Range(existing) : [e EXCEPT !.End_Year = record.End_Year] = record)
             => probe.result = TRUE

\* isDuplicate has answered TRUE for a record whose only match differs from
\* it in End_Year.
C6_Witness ==
  /\ probe.fn = "isDuplicate" /\ probe.done
  /\ probe.result = TRUE
  /\ probe.args[2] \notin Range(probe.args[1])
  /\ \A e \in Range(probe.args[1]) : e.End_Year # probe.args[2].End_Year

\* The six fields of a record, Start_Year as text.
fieldsOf(v) ==
  << v.Manufacturer, v.Model, v.Generation, v.Model_Code,
     NumberToString(v.Start_Year), v.End_Year >>

\* C7: the identity key of an absent record is the empty text; two records
\* whose six fields are equal up to letter case and surrounding white space
\* have the same key; two records that are equal in that way on the first
\* five fields but not on End_Year have different keys, also when
\* isDuplicate holds of them.
C7_IdentityKey ==
  (probe.fn = "getRecordKey" /\ probe.done) =>
    LET a  == probe.args[1]
        b  == probe.args[2]
        ka == probe.result[1]
        kb == probe.result[2]
        same(k) == sameIgnoringCase(trim(fieldsOf(a)[k]), trim(fieldsOf(b)[k]))
    IN  /\ a = NullRecord => ka = << >>
        /\ (a # NullRecord /\ b # NullRecord) =>
             /\ (\A k \in 1..6 : same(k)) => ka = kb
             /\ ((\A k \in 1..5 : same(k)) /\ ~same(6)) => ka # kb

\* The keys of two records that differ in End_Year only, and that isDuplicate
\* takes for duplicates, have been derived.
C7_Witness ==
  /\ probe.fn = "getRecordKey" /\ probe.done
  /\ probe.args[1] # NullRecord /\ probe.args[2] # NullRecord
  /\ probe.args[1].End_Year # probe.args[2].End_Year
  /\ [probe.args[1] EXCEPT !.End_Year = probe.args[2].End_Year] = probe.args[2]
  /\ isDuplicate(<< probe.args[1] >>, probe.args[2])
  /\ probe.result[1] # probe.result[2]

\* A record conforms to the data model as C8 words it: no comma in a text
\* field, no white space at the ends of one, Generation all digits or
\* without a digit.
conforms(r) ==
  /\ \A t \in {r.Manufacturer, r.Model, r.Generation, r.Model_Code, r.End_Year} :
       "," \notin Range(t) /\ trim(t) = t
  /\ \/ \A c \in Range(r.Generation) : IsDigit(c)
     \/ \A c \in Range(r.Generation) : ~IsDigit(c)

\* No text field of the record holds a line break.
singleLine(r) ==
  \A t \in {r.Manufacturer, r.Model, r.Generation, r.Model_Code, r.End_Year} :
    "\n" \notin Range(t)

\* C8 as stated: decoding the encoding of a dataset of conforming records
\* gives the dataset back, record by record.
C8_RoundTripAnyConforming ==
  (probe.fn = "roundTrip" /\ probe.done /\ \A r \in Range(probe.args[1]) : conforms(r))
    => probe.result.ok /\ probe.result.records = probe.args[1]

\* C8 as amended: the same for the datasets whose text fields hold no line
\* break either.
C8_RoundTrip ==
  (/\ probe.fn = "roundTrip" /\ probe.done
   /\ \A r \in Range(probe.args[1]) : conforms(r) /\ singleLine(r))
    => probe.result.ok /\ probe.result.records = probe.args[1]

\* A dataset of two conforming single-line records, one with empty fields,
\* has been encoded and decoded.
C8_Witness ==
  /\ probe.fn = "roundTrip" /\ probe.done
  /\ Len(probe.args[1]) = 2
  /\ \A r \in Range(probe.args[1]) : conforms(r) /\ singleLine(r)
  /\ \E r \in Range(probe.args[1]) : r.Manufacturer = << >>
  /\ probe.result.records = probe.args[1]

\* The number of lines of a text that are not blank.
nonBlankLines(content) ==
  LET lines == split(content, "\n")
  IN  Cardinality({i \in 1..Len(lines) : \E c \in Range(lines[i]) : ~IsWhiteSpace(c)})

offendingLine(content) ==
  LET raw      == split(content, "\n")
      filled   == {n \in 1..Len(raw) : \E c \in Range(raw[n]) : ~IsWhiteSpace(c)}
      header   == CHOOSE n \in filled : \A m \in filled : n <= m
      yearOf(n) == split(raw[n], ",")[Len(expectedHeaders) - 1]
      bad      == {n \in filled : /\ n > header
                                   /\ Len(split(raw[n], ",")) >= Len(expectedHeaders)
                                   /\ parseInt(trim(yearOf(n))).isNaN}
  IN  IF bad = {} THEN 0 ELSE CHOOSE n \in bad : \A m \in bad : n <= m

\* C11: when decoding fails on a Start_Year that is no number, the error
\* names the 1-based line number that the offending row has in the input
\* text, blank lines before it counted.
C11_ErrorNamesInputLine ==
  (/\ probe.fn = "parseCSV" /\ probe.done
   /\ probe.args[1] \in DecodeTexts
   /\ probe.result.error.kind = "year")
    => probe.result.error.line = offendingLine(probe.args[1])

\* C12: under any order of the six header columns, with or without an extra
\* column, decoding rows laid out in the header's column order gives the
\* records that decoding the same rows in the canonical order gives, one
\* record per row.
C12_FieldsByHeaderName ==
  (probe.fn = "parseLayout" /\ probe.done)
    => /\ probe.result[1].ok /\ probe.result[2].ok
       /\ Len(probe.result[1].records) = Len(probe.args[2])
       /\ probe.result[1].records = probe.result[2].records
       /\ \A i \in 1..Len(probe.args[2]) :
            /\ probe.result[1].records[i].Manufacturer = probe.args[2][i][ManufacturerName]
            /\ probe.result[1].records[i].Model = probe.args[2][i][ModelName]
            /\ probe.result[1].records[i].Model_Code = probe.args[2][i][ModelCodeName]
            /\ probe.result[1].records[i].End_Year = probe.args[2][i][EndYearName]

\* Rows have been decoded under a header row that starts with End_Year, has
\* Manufacturer last and holds the extra column.
C12_Witness ==
  /\ probe.fn = "parseLayout" /\ probe.done
  /\ probe.args[1][1] = EndYearName
  /\ probe.args[1][Len(probe.args[1])] = ManufacturerName
  /\ ExtraName \in Range(probe.args[1])
  /\ probe.result[1].ok
  /\ probe.result[1].records # << >>

\* The data rows of a text that have six values or more, in input order.
fullRows(content) ==
  LET filled == SelectSeq(split(content, "\n"), LAMBDA l : \E c \in Range(l) : ~IsWhiteSpace(c))
  IN  SelectSeq(SubSeq(filled, 2, Len(filled)),
                LAMBDA l : Len(split(l, ",")) >= Len(expectedHeaders))

\* The record of a row of six values of the line pool.
recordOfLine(line) ==
  IF line = lineYaris
    THEN [Manufacturer |-> <<"T", "o", "y", "o", "t", "a">>,
           Model |-> <<"Y", "a", "r", "i", "s">>,
           Generation |-> <<"4">>, Model_Code |-> <<"X", "P", "2", "1", "0">>,
           Start_Year |-> 2020, End_Year |-> <<"P", "r", "e", "s", "e", "n", "t">>]
    ELSE [Manufacturer |-> <<"B", "M", "W">>,
           Model |-> <<"3", " ", "S", "e", "r", "i", "e", "s">>,
           Generation |-> <<"7">>, Model_Code |-> <<"G", "2", "0">>,
           Start_Year |-> 2018, End_Year |-> <<"2", "0", "2", "0">>]

\* C13: rows of fewer than six values are skipped without error: the decode
\* of a text whose rows of six values all have a numeric Start_Year succeeds
\* and returns the records of exactly those rows, in input order, whatever
\* the short rows hold.
C13_ShortRowsSkipped ==
  (/\ probe.fn = "parseCSV" /\ probe.done
   /\ probe.args[1] \in DecodeTexts
   /\ lineBadYear \notin Range(fullRows(probe.args[1])))
    => /\ probe.result.ok
       /\ Len(probe.result.records) = Len(fullRows(probe.args[1]))
       /\ \A i \in 1..Len(probe.result.records) :
            probe.result.records[i] = recordOfLine(fullRows(probe.args[1])[i])

\* A text with a short row, whose Start_Year is no number, between two rows
\* of six values has been decoded into two records.
C13_Witness ==
  /\ probe.fn = "parseCSV" /\ probe.done
  /\ probe.args[1] = join(<< headerLine, lineYaris, lineShortBadYear, lineBMW >>, << "\n" >>)
  /\ probe.result.ok
  /\ Len(probe.result.records) = 2

(***************************************************************************)
(* Properties of the suggestion call and of the operations in flight       *)
(* (Spec).                                                                 *)
(***************************************************************************)

\* C14: a suggestion call that fails (the provider call throws, or its
\* answer does not parse) changes neither the dataset nor the persisted
\* snapshot nor the list of pending suggestions: not when it is started and
\* not when its failure is handled.
C14_FailedSuggestionChangesNothing ==
  [][(\/ lastOp' = "handleSuggest"
      \/ lastOp' = "suggestResolved" /\ lastResponse'.kind \in {"reject", "unparsable"})
       => UNCHANGED << database, storage, suggestions >>]_vars

\* A suggestion call has ended with the provider call throwing, over a
\* dataset that is stored.
C14_Witness ==
  /\ lastOp = "suggestResolved"
  /\ lastResponse.kind = "reject"
  /\ status = "ERROR"
  /\ database # << >>
  /\ storage = JSONstringify(database)
  /\ suggestions = << >>

\* C15: an answer of the provider that does not parse ends the call in the
\* ERROR status, and the notice that nothing new was found comes up only for
\* an answer that parses to an empty list.
C15_UnparsableIsProviderError ==
  [][lastOp' = "suggestResolved"
       => /\ lastResponse'.kind = "unparsable" => status' = "ERROR"
          /\ (showNoResultsModal' /\ ~showNoResultsModal)
               => lastResponse' = [kind |-> "json", value |-> << >>]]_vars

\* C19: at most one suggestion call or file read is in flight.
C19_OneOperationInFlight ==
  (IF status = "ANALYZING" THEN 1 ELSE 0) + Len(pendingReads) <= 1

(***************************************************************************)
(* Properties of the view controls (SpecView).                             *)
(***************************************************************************)

C17_FilterChangeResets ==
  [][lastOp' \in {"setSearchTerm", "toggleFilterManufacturer", "setFilterYearRange",
                  "clearFilters"}
       => currentPage' = 1 /\ selectedRowKeys' = {}]_vars

(***************************************************************************)
(* Properties of filteredData and sortDatabase on their own (SpecPure).    *)
(***************************************************************************)

\* The three tests of C18, spelled out on characters.
sameLetter(a, b) == toLowerCase(<< a >>) = toLowerCase(<< b >>)

foundIn(term, field) ==
  \E at \in 0..(Len(field) - Len(term)) :
    \A k \in 1..Len(term) : sameLetter(field[at + k], term[k])

passesSearch(r, term) ==
  \/ Len(term) = 0
  \/ foundIn(term, r.Manufacturer) \/ foundIn(term, r.Model) \/ foundIn(term, r.Model_Code)

passesManufacturer(r, manufacturers) ==
  \/ Len(manufacturers) = 0
  \/ \E k \in 1..Len(manufacturers) : manufacturers[k] = r.Manufacturer

passesYear(r, yearRange) == yearRange[1] <= r.Start_Year /\ r.Start_Year <= yearRange[2]

passesAll(r, term, manufacturers, yearRange) ==
  passesSearch(r, term) /\ passesManufacturer(r, manufacturers) /\ passesYear(r, yearRange)

\* C18: the filtered view is the dataset without the records that fail one
\* of the three tests, the others in dataset order.
C18_ViewIsConjunctionOfFacets ==
  (probe.fn = "filteredData" /\ probe.done)
    => LET db   == probe.args[1]
           kept == {i \in 1..Len(db) :
                      passesAll(db[i], probe.args[2], probe.args[3], probe.args[4])}
           nth(n) == CHOOSE i \in kept : Cardinality({j \in kept : j <= i}) = n
       IN  /\ Len(probe.result) = Cardinality(kept)
           /\ \A n \in 1..Len(probe.result) : probe.result[n] = db[nth(n)]

\* A dataset of two records has been filtered by search term, manufacturer
\* and years: one record passes the three tests, the other the search and the
\* years only, and the view holds the first alone.
C18_Witness ==
  /\ probe.fn = "filteredData" /\ probe.done
  /\ Len(probe.args[1]) = 2
  /\ Len(probe.args[2]) > 0 /\ Len(probe.args[3]) > 0
  /\ \E r \in Range(probe.args[1]) :
       /\ passesSearch(r, probe.args[2]) /\ passesYear(r, probe.args[4])
       /\ ~passesManufacturer(r, probe.args[3])
  /\ \E r \in Range(probe.args[1]) :
       /\ passesAll(r, probe.args[2], probe.args[3], probe.args[4])
       /\ probe.result = << r >>

\* Two records are equal on the three sort keys.
sameSortKeys(a, b) ==
  a.Manufacturer = b.Manufacturer /\ a.Model = b.Model /\ a.Start_Year = b.Start_Year

\* C20: sorting what sortDatabase returned returns the same; what it returns
\* holds every record as often as the dataset does; records equal on
\* Manufacturer, Model and Start_Year come in the order they have in the
\* dataset; and the array passed to it is left as it was.
C20_SortIdempotentStable ==
  (probe.fn = "sortDatabase" /\ probe.done)
    => LET D      == probe.args[1]
           sorted == probe.result[1].returned
           count(seq, r) == Cardinality({i \in 1..Len(seq) : seq[i] = r})
           tied(seq, r)  == SelectSeq(seq, LAMBDA x : sameSortKeys(x, r))
       IN  /\ probe.result[2].returned = sorted
           /\ Len(sorted) = Len(D)
           /\ \A r \in Range(D) \cup Range(sorted) : count(sorted, r) = count(D, r)
           /\ \A r \in Range(D) : tied(sorted, r) = tied(D, r)
           /\ probe.result[1].argument = D
           /\ probe.result[2].argument = sorted

\* A dataset has been sorted that was not in order and holds two different
\* records equal on the three sort keys.
C20_Witness ==
  /\ probe.fn = "sortDatabase" /\ probe.done
  /\ probe.result[1].returned # probe.args[1]
  /\ \E i, j \in 1..Len(probe.args[1]) :
       /\ i < j
       /\ probe.args[1][i] # probe.args[1][j]
       /\ sameSortKeys(probe.args[1][i], probe.args[1][j])

(***************************************************************************)
(* Properties of the selection and of its deletion (SpecView).             *)
(***************************************************************************)

\* C21: deleting the selection removes exactly the records whose identity
\* key is selected, as many records as keys were selected (the number the
\* user is told), keeps the other records in their order and leaves no row
\* selected.
C21_DeleteRemovesSelection ==
  [][lastOp' = "handleDeleteSelected"
       => /\ database' = SelectSeq(database,
                                   LAMBDA r : getRecordKey(r) \notin selectedRowKeys)
          /\ Len(database) - Len(database') = Cardinality(selectedRowKeys)
          /\ selectedRowKeys' = {}]_vars

\* C25: in every reachable state every selected key is the identity key of
\* a record of the filtered view, hence of the dataset.
C25_SelectionWithinDataset ==
  \A key \in selectedRowKeys : \E i \in 1..Len(view) : getRecordKey(view[i]) = key

(***************************************************************************)
(* Properties of cleanGeneration and of the records parseCSV returns       *)
(* (SpecPure).                                                             *)
(***************************************************************************)
hasDigit(val) == \E k \in 1..Len(val) : IsDigit(val[k])

\* r is the run of digits of val that starts at the first digit of val and
\* ends before the first character after it that is no digit.
isFirstDigitRun(val, r) ==
  \E i \in 1..Len(val), j \in 1..Len(val) :
    /\ i <= j
    /\ r = SubSeq(val, i, j)
    /\ \A k \in i..j : IsDigit(val[k])
    /\ \A k \in 1..(i - 1) : ~IsDigit(val[k])
    /\ j = Len(val) \/ ~IsDigit(val[j + 1])

\* out is what the normalisation of a Generation text val has to give.
isNormalised(val, out) ==
  IF hasDigit(val) THEN isFirstDigitRun(val, out) ELSE out = val

C23_ImportMergesIntoCurrent ==
  [][lastOp' = "importMerged"
       => \E i \in 1..Len(pendingReads) :
            /\ pendingReads' = RemoveAt(pendingReads, i)
            /\ Range(database) \subseteq Range(database')
            /\ Range(database') \subseteq
                 Range(database) \cup Range(parseCSV(pendingReads[i].content).records)]_vars

(***************************************************************************)
(* Properties of the agent status (SpecStatus).                            *)
(***************************************************************************)

\* C24: whenever the status is not IDLE (ANALYZING, READY_FOR_EXPANSION,
\* UPDATING, ERROR), the handler runs open to the user bring it back to
\* IDLE, where a suggestion can be started again.
C24_StatusReturnsToIdle == (status # "IDLE") ~> (status = "IDLE")

\* The six fields of r have a value and its Start_Year is an integer.
isComplete(r) ==
  /\ r.Manufacturer # UNDEFINED
  /\ r.Model # UNDEFINED
  /\ r.Generation # UNDEFINED
  /\ r.Model_Code # UNDEFINED
  /\ r.End_Year # UNDEFINED
  /\ r.Start_Year \in Int

\* C26: every record of a successful decode has its six fields defined and
\* an integer Start_Year, also under a header row of more columns than a
\* row of six values has values.
C26_DecodedRecordsComplete ==
  (probe.fn \in {"parseCSV", "parseRagged"} /\ probe.done /\ probe.result.ok)
    => \A n \in 1..Len(probe.result.records) : isComplete(probe.result.records[n])

=============================================================================
